---------------------------- MODULE Spec2Model ----------------------------
(***************************************************************************)
(* Model of the dependency-graph engine of modlist-bisector                *)
(* (src/src/modlist_bisector/mod_graph.py) together with the path toggler  *)
(* (src/src/modlist_bisector/paths.py) and the history log                 *)
(* (src/src/modlist_bisector/mod_log.py).                                  *)
(*                                                                         *)
(* One behaviour is one session on one in-memory ModGraph: the graph is    *)
(* built from the discovered mods, synced, and then commands run on it.    *)
(* An exception aborts the session: err records it and nothing runs after. *)
(* Outside the graph there are the files of the mods under the root, the   *)
(* graph document and the log segments.                                    *)
(*                                                                         *)
(* Spec          the commands of the search, files touched by the engine   *)
(*               only                                                      *)
(* SpecDrift     the direct commands as well, and files that change from   *)
(*               outside                                                   *)
(* SpecStore     the commands of the search with save and load             *)
(* SpecScenarios the commands of the search on two fixed graphs            *)
(* SpecToggler   the path toggler alone                                    *)
(* SpecLogs      sync, save and load after many earlier sessions           *)
(***************************************************************************)
EXTENDS Integers, Sequences, FiniteSets, TLC

\* ------------------------------------------------------------------ bounds
MaxMods == 2          \* discovered mods are 1..MaxMods
MaxDeps == 1          \* dependency edges in all (declared and extra_deps)
MaxExtra == 1         \* of which come from config.extra_deps
MaxOverrides == 1     \* entries of config.overrides
MaxDrift == 1         \* external changes to the files during a session
MaxSegs == 1          \* log segments in the directory before build
MaxLog == 2           \* entries in one log segment
MaxSessions == 10     \* earlier sessions that ran build in the directory

Mods == 1..MaxMods
\* A mod id that is depended on or configured but never discovered under the
\* root (such as "minecraft" or "java").
Ext == 0
\* The ids an input of the general build can mention.
Known == Mods \cup {Ext}

\* The mod ids of the scenarios.
ModA == 1
ModB == 2
ModC == 3
ModD == 4
ModE == 5
Scenario == {ModA, ModB, ModC, ModD, ModE}

\* Every mod id.
Ids == Known \cup Scenario

\* The two artifact forms of one mod under the root.
JAR == "jar"
JAR_DISABLED == "jar.disabled"

VARIABLES
    nodes,        \* G.nodes: ids in the graph
    edges,        \* G.edges: <<a, b>> means a needs b
    attrs,        \* keys present in each node's attribute dict
    enabled,      \* node["enabled"]
    locked,       \* node["locked"]
    disk,         \* per id, the artifact forms that exist under the root
    overrides,    \* config.overrides: set of <<id, bool>>
    extra_deps,   \* config.extra_deps: set of <<id, dependency>>
    op,           \* the last operation
    err,          \* "ok", or the exception that aborted the session
    report,       \* what bisect printed: <<newly_disabled, enabled, total>>
    drifts,       \* external changes so far
    graph_json,   \* the document at GRAPH_PATH: <<doc>>, or <<>> without the file
    logs,         \* the segments log_<i>.json: index -> its list of entries
    call,         \* the last direct call of rename_path and its outcome
    syncs,        \* history: successful syncs in a row just before now (0, 1, 2+)
    round         \* history: the number of unlocked nodes when the verdict of
                  \* the round in progress was recorded, -1 outside a round

vars == <<nodes, edges, attrs, enabled, locked, disk, overrides, extra_deps,
          op, err, report, drifts, graph_json, logs, call, syncs, round>>

config == <<overrides, extra_deps>>

\* What the engine keeps outside the graph and the mods' files.
store == <<graph_json, logs>>

NoReport == <<0, 0, 0>>

\* No direct call of rename_path yet.
NoCall == [m |-> Ext, source |-> "", target |-> "", ret |-> FALSE,
           err |-> "ok", again |-> ""]

\* The working directory as build() leaves it at line 38 when it held no log
\* segment and no graph document: one empty segment, log_0.json.
FreshLogs == [i \in {0} |-> <<>>]

\* ------------------------------------------------------------ graph theory
Succ(E, n) == {e[2] : e \in {x \in E : x[1] = n}}
Pred(E, n) == {e[1] : e \in {x \in E : x[2] = n}}

RECURSIVE Reach(_, _, _)
\* Nodes reachable from the frontier F along E, F excluded unless re-reached.
Reach(E, F, seen) ==
    LET nxt == UNION {Succ(E, n) : n \in F} \ seen
    IN IF nxt = {} THEN seen ELSE Reach(E, nxt, seen \cup nxt)

\* nx.descendants(G, n): every node reachable from n, n itself excluded.
Descendants(E, n) == Reach(E, {n}, {}) \ {n}

\* nx.ancestors(G, n): every node that reaches n, n itself excluded.
Ancestors(E, n) == {a \in {e[1] : e \in E} : n \in Reach(E, {a}, {})} \ {n}

\* nx.find_cycle finds a cycle iff some node reaches itself.
HasCycle(N, E) == \E n \in N : n \in Reach(E, {n}, {})

Induced(N, E) == {e \in E : e[1] \in N /\ e[2] \in N}

RECURSIVE TopoRuns(_, _)
\* nx.topological_sort(G): the node sequences it can yield.  A node is
\* yielded only after all its predecessors; which of the ready nodes comes
\* first depends on insertion order and library version, so every choice is
\* possible.  On a cyclic graph the nodes on or behind a cycle are never
\* yielded (the sequence is short) and the iteration ends by raising.
TopoRuns(N, E) ==
    LET ready == {n \in N : Pred(Induced(N, E), n) = {}}
    IN IF ready = {} THEN {<<>>}
       ELSE UNION {{<<n>> \o s : s \in TopoRuns(N \ {n}, E)} : n \in ready}

\* Mutant: the sort yields dependencies before their dependents.
TopologicalSort_DepsFirst(N, E) == TopoRuns(N, {<<e[2], e[1]>> : e \in E})

TopologicalSort(N, E) == TopoRuns(N, E)

RECURSIVE Perms(_)
\* Every order in which a set or dict can be iterated.
Perms(S) ==
    IF S = {} THEN {<<>>}
    ELSE UNION {{<<n>> \o s : s \in Perms(S \ {n})} : n \in S}


\* ------------------------------------------------------------ path toggler
\* Mutant: the toggler toggles: it renames whichever form exists to the other.
rename_path_Toggles(F, source, target) ==
    CASE source \in F /\ target \notin F ->
            [files |-> (F \ {source}) \cup {target}, ret |-> TRUE, err |-> "ok"]
      [] source \notin F /\ target \in F ->
            [files |-> (F \ {target}) \cup {source}, ret |-> TRUE, err |-> "ok"]
      [] source \in F /\ target \in F ->
            [files |-> F, ret |-> FALSE, err |-> "RuntimeError"]
      [] OTHER ->
            [files |-> F, ret |-> FALSE, err |-> "FileNotFoundError"]

\* Mutant: with both paths present the rename goes ahead and replaces the
\* target.
rename_path_Overwrites(F, source, target) ==
    CASE source \in F /\ source # target ->
            [files |-> (F \ {source}) \cup {target}, ret |-> TRUE, err |-> "ok"]
      [] source \notin F /\ target \in F ->
            [files |-> F, ret |-> FALSE, err |-> "ok"]
      [] source \in F /\ target \in F ->
            [files |-> F, ret |-> FALSE, err |-> "RuntimeError"]
      [] OTHER ->
            [files |-> F, ret |-> FALSE, err |-> "FileNotFoundError"]

\* rename_path(source, target) on the artifact forms F of one mod.
\* -> [files, ret, err]
rename_path(F, source, target) ==
    CASE source \in F /\ target \notin F ->
            [files |-> (F \ {source}) \cup {target}, ret |-> TRUE, err |-> "ok"]
      [] source \notin F /\ target \in F ->
            [files |-> F, ret |-> FALSE, err |-> "ok"]
      [] source \in F /\ target \in F ->
            [files |-> F, ret |-> FALSE, err |-> "RuntimeError"]
      [] OTHER ->
            [files |-> F, ret |-> FALSE, err |-> "FileNotFoundError"]

\* How a call ended, for the record of the call that follows it.
Outcome(c) == IF c.err # "ok" THEN "raise" ELSE IF c.ret THEN "true" ELSE "false"

\* A caller calls rename_path(source, target) on the files of mod m.  The
\* caller lives on when the call raises, so err stays "ok": the exception is
\* in the record of the call.  again tells how the call before ended when it
\* had the same arguments.
RenamePath(m, source, target) ==
    LET r == rename_path(disk[m], source, target)
    IN /\ err = "ok"
       /\ disk' = [disk EXCEPT ![m] = r.files]
       /\ call' = [m |-> m, source |-> source, target |-> target,
                   ret |-> r.ret, err |-> r.err,
                   again |-> IF <<call.m, call.source, call.target>> =
                                   <<m, source, target>>
                             THEN Outcome(call) ELSE ""]
       /\ op' = "rename_path"
       /\ UNCHANGED <<nodes, edges, attrs, enabled, locked, config, err, report,
                      drifts, store, syncs, round>>

\* --------------------------------------------------- the state setter
\* The running state of one operation: the enabled flags, the files, the
\* exception raised so far (if any) and the last call's return value.
St(en, dk) == [enabled |-> en, disk |-> dk, err |-> "ok", ret |-> FALSE]

Raise(st, e) == [st EXCEPT !.err = e, !.ret = FALSE]

\* set_enabled(modid, value, force).  A node without the "path" key (never
\* discovered) makes node_paths raise KeyError, after the flag was written.
set_enabled(st, m, value, force) ==
    IF st.err # "ok" THEN st
    ELSE IF ~force /\ st.enabled[m] = value THEN [st EXCEPT !.ret = FALSE]
    ELSE LET en2 == [st.enabled EXCEPT ![m] = value]
             r == IF value THEN rename_path(st.disk[m], JAR_DISABLED, JAR)
                           ELSE rename_path(st.disk[m], JAR, JAR_DISABLED)
         IN IF "path" \notin attrs[m]
            THEN Raise([st EXCEPT !.enabled = en2], "KeyError")
            ELSE [st EXCEPT !.enabled = en2,
                            !.disk = [st.disk EXCEPT ![m] = r.files],
                            !.err = r.err,
                            !.ret = r.ret]

enable(st, m) == set_enabled(st, m, TRUE, FALSE)

disable(st, m) == set_enabled(st, m, FALSE, FALSE)

toggle(st, m) == set_enabled(st, m, ~st.enabled[m], FALSE)

\* ------------------------------------------------------------------ queries
\* pending_nodes(): the ids of the unlocked nodes.
pending_nodes(N, lk) == {m \in N : ~lk[m]}

\* pending_view(): the graph restricted to the unlocked nodes.
pending_view(N, E, lk) == Induced(pending_nodes(N, lk), E)

\* count_nodes() -> <<enabled, disabled, total>>
count_nodes(N, en, lk) ==
    <<Cardinality({m \in N : ~lk[m] /\ en[m]}),
      Cardinality({m \in N : ~lk[m] /\ ~en[m]}),
      Cardinality(N)>>

\* Mutant: the filter of the view is inverted, so the locked nodes are
\* checked instead of the unlocked ones.
assert_acyclic_pending_Locked(N, E, lk) ==
    ~HasCycle(N \ pending_nodes(N, lk), Induced(N \ pending_nodes(N, lk), E))

\* assert_acyclic_pending() raises iff the pending view has a cycle.
assert_acyclic_pending(N, E, lk) ==
    ~HasCycle(pending_nodes(N, lk), pending_view(N, E, lk))

\* --------------------------------------------------------------------- sync
\* The configured overrides, as the dict config.overrides iterates them.
OverrideIds == {o[1] : o \in overrides}

OverrideValue(m) == (CHOOSE o \in overrides : o[1] = m)[2]

RECURSIVE SyncLoop_UnlockedAncestors(_, _, _, _)
\* Mutant: only the unlocked ancestors of a node propagate to it.
SyncLoop_UnlockedAncestors(st, E, order, i) ==
    IF i > Len(order) \/ st.err # "ok" THEN st
    ELSE LET m == order[i]
             v == st.enabled[m] \/
                  \E a \in Ancestors(E, m) : st.enabled[a] /\ a \notin OverrideIds
             st1 == [st EXCEPT !.enabled = [st.enabled EXCEPT ![m] = v]]
         IN SyncLoop_UnlockedAncestors(set_enabled(st1, m, v, TRUE), E, order, i + 1)

RECURSIVE SyncLoop_NoForce(_, _, _, _)
\* Mutant: sync calls set_enabled without force.
SyncLoop_NoForce(st, E, order, i) ==
    IF i > Len(order) \/ st.err # "ok" THEN st
    ELSE LET m == order[i]
             v == st.enabled[m] \/ \E a \in Ancestors(E, m) : st.enabled[a]
             st1 == [st EXCEPT !.enabled = [st.enabled EXCEPT ![m] = v]]
         IN SyncLoop_NoForce(set_enabled(st1, m, v, FALSE), E, order, i + 1)

RECURSIVE SyncLoop(_, _, _, _)
\* Lines 94-102: for each node in topological order, enable it if any
\* ancestor is enabled, then force its state onto the files.
SyncLoop(st, E, order, i) ==
    IF i > Len(order) \/ st.err # "ok" THEN st
    ELSE LET m == order[i]
             v == st.enabled[m] \/ \E a \in Ancestors(E, m) : st.enabled[a]
             st1 == [st EXCEPT !.enabled = [st.enabled EXCEPT ![m] = v]]
         IN SyncLoop(set_enabled(st1, m, v, TRUE), E, order, i + 1)

\* The graph after lines 76-89 of sync run on the graph (N, E, at, en, lk):
\* overrides applied to the nodes they name, extra_deps spliced in, nodes
\* with an empty attribute dict removed.
SyncGraph(N, E, at, en, lk) ==
    LET at2 == [m \in Ids |-> IF m \in OverrideIds /\ m \in N
                              THEN at[m] \cup {"state"} ELSE at[m]]
        spliced == N \cup {e[1] : e \in extra_deps} \cup {e[2] : e \in extra_deps}
        N2 == {m \in spliced : at2[m] # {}}
    IN [nodes |-> N2,
        edges |-> Induced(N2, E \cup extra_deps),
        attrs |-> at2,
        enabled |-> [m \in Ids |-> IF m \in OverrideIds /\ m \in N
                                   THEN OverrideValue(m) ELSE en[m]],
        locked |-> [m \in Ids |-> lk[m] \/ (m \in OverrideIds /\ m \in N)]]

\* The same, for the graph in memory.
SyncLocked == SyncGraph(nodes, edges, attrs, enabled, locked).locked

SyncEnabled(en) == SyncGraph(nodes, edges, attrs, en, locked).enabled

SyncAttrs == SyncGraph(nodes, edges, attrs, enabled, locked).attrs

SyncNodes == SyncGraph(nodes, edges, attrs, enabled, locked).nodes

SyncEdges == SyncGraph(nodes, edges, attrs, enabled, locked).edges

\* The outcomes of lines 94-102 on the graph g, one per order the sort can
\* yield; a sort that comes up short raises once the nodes it yielded are
\* done.
SyncRuns(g, st0) ==
    {LET st == SyncLoop(st0, g.edges, order, 1)
     IN IF st.err = "ok" /\ Len(order) < Cardinality(g.nodes)
        THEN Raise(st, "NetworkXUnfeasible") ELSE st :
       order \in TopologicalSort(g.nodes, g.edges)}

\* The outcomes of sync(), lines 75-104, run on the graph (N, E, at, en, lk)
\* and the files dk: the graph, the files and the exception it ends with.
SyncOutcomes(N, E, at, en, lk, dk) ==
    IF ~(OverrideIds \subseteq N)
    THEN \* self.node(modid) raises on an override for an id not in G
         {[nodes |-> N, edges |-> E, attrs |-> at, enabled |-> en,
           locked |-> lk, disk |-> dk, err |-> "KeyError"]}
    ELSE LET g == SyncGraph(N, E, at, en, lk)
             out(e, d, x) == [nodes |-> g.nodes, edges |-> g.edges,
                              attrs |-> g.attrs, enabled |-> e,
                              locked |-> g.locked, disk |-> d, err |-> x]
         IN IF ~assert_acyclic_pending(g.nodes, g.edges, g.locked)
            THEN {out(g.enabled, dk, "ValueError")}
            ELSE {out(st.enabled, st.disk, st.err) :
                    st \in SyncRuns(g, St(g.enabled, dk))}

\* sync() on the graph in memory, with the flags en and the files dk.
sync(en, dk) ==
    \E r \in SyncOutcomes(nodes, edges, attrs, en, locked, dk) :
        /\ nodes' = r.nodes
        /\ edges' = r.edges
        /\ attrs' = r.attrs
        /\ enabled' = r.enabled
        /\ locked' = r.locked
        /\ disk' = r.disk
        /\ err' = r.err

Sync ==
    /\ err = "ok"
    /\ op' = "sync"
    /\ report' = NoReport
    /\ UNCHANGED <<config, drifts, store, call>>
    /\ sync(enabled, disk)
    /\ syncs' = IF err' # "ok" THEN 0 ELSE IF syncs = 0 THEN 1 ELSE 2
    /\ round' = -1

\* ------------------------------------------------------------------- bisect
RECURSIVE BisectLoop_NoLockSkip(_, _, _, _)
\* Mutant: the loop does not skip locked nodes.
BisectLoop_NoLockSkip(b, to_disable, order, i) ==
    IF i > Len(order) \/ b.st.err # "ok" \/ b.broke THEN b
    ELSE LET st1 == disable(b.st, order[i])
             b1 == [b EXCEPT !.st = st1, !.enabled = b.enabled - 1]
         IN IF st1.err # "ok" \/ ~st1.ret
            THEN BisectLoop_NoLockSkip(b1, to_disable, order, i + 1)
            ELSE BisectLoop_NoLockSkip(
                   [b1 EXCEPT !.newly_disabled = b.newly_disabled + 1,
                              !.broke = b.newly_disabled + 1 >= to_disable],
                   to_disable, order, i + 1)

RECURSIVE BisectLoop(_, _, _, _)
\* Lines 155-165.  b carries the setter state st, the local counters enabled
\* and newly_disabled, and whether the loop left by break.
BisectLoop(b, to_disable, order, i) ==
    IF i > Len(order) \/ b.st.err # "ok" \/ b.broke THEN b
    ELSE LET m == order[i]
         IN IF locked[m] THEN BisectLoop(b, to_disable, order, i + 1)
            ELSE LET st1 == disable(b.st, m)
                     b1 == [b EXCEPT !.st = st1, !.enabled = b.enabled - 1]
                 IN IF st1.err # "ok" \/ ~st1.ret
                    THEN BisectLoop(b1, to_disable, order, i + 1)
                    ELSE BisectLoop(
                           [b1 EXCEPT !.newly_disabled = b.newly_disabled + 1,
                                      !.broke = b.newly_disabled + 1 >= to_disable],
                           to_disable, order, i + 1)

\* The outcomes of lines 151-165, one per order the sort can yield; a sort
\* that comes up short raises unless the loop left by break before.
BisectRuns ==
    {LET n == count_nodes(nodes, enabled, locked)[1]
         b == BisectLoop([st |-> St(enabled, disk), enabled |-> n,
                          newly_disabled |-> 0, broke |-> FALSE],
                         n \div 2, order, 1)
     IN IF b.st.err = "ok" /\ ~b.broke /\ Len(order) < Cardinality(nodes)
        THEN [b EXCEPT !.st = Raise(b.st, "NetworkXUnfeasible")] ELSE b :
       order \in TopologicalSort(nodes, edges)}

\* bisect(), lines 150-168.
Bisect ==
    /\ err = "ok"
    /\ op # "build"
    /\ op' = "bisect"
    /\ syncs' = 0
    /\ UNCHANGED <<nodes, edges, attrs, locked, config, drifts, store, call, round>>
    /\ \E b \in BisectRuns :
         /\ enabled' = b.st.enabled
         /\ disk' = b.st.disk
         /\ err' = b.st.err
         /\ report' = IF b.st.err = "ok"
                      THEN <<b.newly_disabled, b.enabled,
                             count_nodes(nodes, enabled, locked)[3]>>
                      ELSE NoReport

\* ----------------------------------------------------------------- verdicts
\* set_good(modid, True) writes the key "is_good" of the node.
set_good(at, m) == [at EXCEPT ![m] = at[m] \cup {"is_good"}]

RECURSIVE SetGoodAll(_, _)
SetGoodAll(at, S) ==
    IF S = {} THEN at
    ELSE LET m == CHOOSE x \in S : TRUE
         IN SetGoodAll(set_good(at, m), S \ {m})

\* set_disabled_good(), lines 170-174.
SetDisabledGood ==
    /\ err = "ok"
    /\ op # "build"
    /\ op' = "set_disabled_good"
    /\ attrs' = SetGoodAll(attrs, {m \in pending_nodes(nodes, locked) : ~enabled[m]})
    /\ report' = NoReport
    /\ syncs' = 0
    /\ round' = Cardinality(pending_nodes(nodes, locked))
    /\ UNCHANGED <<nodes, edges, enabled, locked, disk, config, err, drifts,
                   store, call>>

RECURSIVE EnableAll(_, _, _)
EnableAll(st, calls, i) ==
    IF i > Len(calls) \/ st.err # "ok" THEN st
    ELSE EnableAll(enable(st, calls[i]), calls, i + 1)

RECURSIVE EnableCalls(_)
\* Lines 191-194: the enable calls, in order, for one iteration order of
\* to_enable and of each node's descendants.
EnableCalls(to_enable) ==
    IF to_enable = <<>> THEN {<<>>}
    ELSE {<<Head(to_enable)>> \o d \o rest :
            d \in Perms(Descendants(edges, Head(to_enable))),
            rest \in EnableCalls(Tail(to_enable))}

RECURSIVE DisableGoodAll(_, _, _)
\* Lines 197-199: disable, then mark good, each node still in to_disable.
DisableGoodAll(g, order, i) ==
    IF i > Len(order) \/ g.st.err # "ok" THEN g
    ELSE LET st1 == disable(g.st, order[i])
         IN DisableGoodAll(
              [st |-> st1,
               attrs |-> IF st1.err = "ok" THEN set_good(g.attrs, order[i])
                         ELSE g.attrs],
              order, i + 1)

\* Mutant: the dependencies of the re-enabled nodes are not taken out of
\* to_disable (line 195 is missing).
SetEnabledGoodRuns_NoDiscard ==
    LET pending == pending_nodes(nodes, locked)
        to_enable == {m \in pending : ~enabled[m]}
        to_disable == {m \in pending : enabled[m]}
        firsts == {EnableAll(St(enabled, disk), calls, 1) :
                     calls \in UNION {EnableCalls(outer) :
                                        outer \in Perms(to_enable)}}
    IN UNION {IF st1.err # "ok" THEN {[st |-> st1, attrs |-> attrs]}
              ELSE {DisableGoodAll([st |-> st1, attrs |-> attrs], order, 1) :
                      order \in Perms(to_disable)} :
                st1 \in firsts}

\* The outcomes of lines 182-199, one per iteration order of the sets.
SetEnabledGoodRuns ==
    LET pending == pending_nodes(nodes, locked)
        to_enable == {m \in pending : ~enabled[m]}
        to_disable == {m \in pending : enabled[m]}
        kept == UNION {Descendants(edges, m) : m \in to_enable}
        firsts == {EnableAll(St(enabled, disk), calls, 1) :
                     calls \in UNION {EnableCalls(outer) :
                                        outer \in Perms(to_enable)}}
    IN UNION {IF st1.err # "ok" THEN {[st |-> st1, attrs |-> attrs]}
              ELSE {DisableGoodAll([st |-> st1, attrs |-> attrs], order, 1) :
                      order \in Perms(to_disable \ kept)} :
                st1 \in firsts}

\* set_enabled_good(), lines 176-201.
SetEnabledGood ==
    /\ err = "ok"
    /\ op # "build"
    /\ op' = "set_enabled_good"
    /\ report' = NoReport
    /\ syncs' = 0
    /\ round' = Cardinality(pending_nodes(nodes, locked))
    /\ UNCHANGED <<nodes, edges, locked, config, drifts, store, call>>
    /\ \E g \in SetEnabledGoodRuns :
         /\ enabled' = g.st.enabled
         /\ disk' = g.st.disk
         /\ err' = g.st.err
         /\ attrs' = g.attrs

\* ------------------------------------------------------- direct operations
Direct(name, st) ==
    /\ op' = name
    /\ enabled' = st.enabled
    /\ disk' = st.disk
    /\ err' = st.err
    /\ report' = NoReport
    /\ syncs' = 0
    /\ round' = -1
    /\ UNCHANGED <<nodes, edges, attrs, locked, config, drifts, store, call>>

Enable(m) ==
    /\ err = "ok" /\ op # "build" /\ m \in nodes
    /\ Direct("enable", enable(St(enabled, disk), m))

Disable(m) ==
    /\ err = "ok" /\ op # "build" /\ m \in nodes
    /\ Direct("disable", disable(St(enabled, disk), m))

Toggle(m) ==
    /\ err = "ok" /\ op # "build" /\ m \in nodes
    /\ Direct("toggle", toggle(St(enabled, disk), m))

\* ----------------------------------------------------------- environment
Forms == SUBSET {JAR, JAR_DISABLED}

\* The files of one discovered mod change behind the engine's back.
Drift(m) ==
    /\ err = "ok" /\ op # "build"
    /\ drifts < MaxDrift
    /\ m \in Mods
    /\ \E F \in Forms \ {disk[m]} : disk' = [disk EXCEPT ![m] = F]
    /\ drifts' = drifts + 1
    /\ op' = "drift"
    /\ report' = NoReport
    /\ syncs' = 0
    /\ round' = -1
    /\ UNCHANGED <<nodes, edges, attrs, enabled, locked, config, err, store, call>>

\* -------------------------------------------------------------------- reset
\* reset(), lines 116-120: enable every node, then sync.
Reset ==
    /\ err = "ok"
    /\ op # "build"
    /\ op' = "reset"
    /\ report' = NoReport
    /\ round' = -1
    /\ UNCHANGED <<config, drifts, store, call>>
    /\ \E st \in {EnableAll(St(enabled, disk), order, 1) : order \in Perms(nodes)} :
         IF st.err # "ok"
         THEN /\ enabled' = st.enabled
              /\ disk' = st.disk
              /\ err' = st.err
              /\ UNCHANGED <<nodes, edges, attrs, locked>>
         ELSE sync(st.enabled, st.disk)
    /\ syncs' = IF err' = "ok" THEN 1 ELSE 0

\* -------------------------------------------------------------- history log
RECURSIVE Digits(_)
\* The decimal digits of i, as they stand in the name log_<i>.json.
Digits(i) == IF i < 10 THEN <<i>> ELSE Digits(i \div 10) \o <<i % 10>>

\* log_<i>.json < log_<j>.json as paths: their names compare as strings,
\* character by character, and the "." after the digits sorts before every
\* digit.
PathLess(i, j) ==
    LET a == Digits(i)
        b == Digits(j)
        k == CHOOSE n \in 1..(Len(a) + 1) :
                /\ \A x \in 1..(n - 1) : x <= Len(b) /\ a[x] = b[x]
                /\ (n > Len(a) \/ n > Len(b) \/ a[n] # b[n])
    IN IF k > Len(a) THEN Len(b) > Len(a)
       ELSE IF k > Len(b) THEN FALSE
       ELSE a[k] < b[k]

\* glob_logs(): the segments present, by index.
glob_logs(lg) == DOMAIN lg

\* max(paths)
MaxPath(paths) == CHOOSE i \in paths : \A j \in paths \ {i} : PathLess(j, i)

\* load_log(): the entries of the greatest path, [] without any segment.
load_log(lg) ==
    IF glob_logs(lg) = {} THEN <<>> ELSE lg[MaxPath(glob_logs(lg))]

\* next_log(paths): the index of the segment to start.
next_log(paths) == Cardinality(paths)

\* Path.touch(): an empty file unless the file exists.
Touch(lg, i) ==
    [j \in DOMAIN lg \cup {i} |-> IF j \in DOMAIN lg THEN lg[j] ELSE <<>>]

\* Mutant: every save starts the next segment instead of rewriting the
\* current one.
save_log_StartsNext(lg, log) ==
    [j \in DOMAIN lg \cup {next_log(glob_logs(lg))} |->
        IF j = next_log(glob_logs(lg)) THEN log ELSE lg[j]]

\* save_log(log): the segment written holds log, the others are as before.
save_log(lg, log) ==
    LET paths == glob_logs(lg)
        path == IF paths # {} THEN MaxPath(paths) ELSE next_log({})
    IN [j \in DOMAIN lg \cup {path} |-> IF j = path THEN log ELSE lg[j]]

RECURSIVE Sorted(_)
\* sorted(S)
Sorted(S) ==
    IF S = {} THEN <<>>
    ELSE LET x == CHOOSE y \in S : \A z \in S : y <= z
         IN <<x>> \o Sorted(S \ {x})

\* dump_enabled()
dump_enabled == Sorted({m \in nodes : enabled[m]})

\* -------------------------------------------------------------- persistence
\* nx.adjacency_data(G): the nodes as a list of their attribute dicts with
\* the id added, and for each node, in the same order, the list of its
\* successors.
adjacency_data(N, Ed, at, en, lk) ==
    LET order == Sorted(N)
    IN [directed |-> TRUE,
        nodes |-> [i \in 1..Len(order) |->
                     [id |-> order[i], keys |-> at[order[i]],
                      enabled |-> en[order[i]], locked |-> lk[order[i]]]],
        adjacency |-> [i \in 1..Len(order) |->
                         [j \in 1..Cardinality(Succ(Ed, order[i])) |->
                            [id |-> Sorted(Succ(Ed, order[i]))[j]]]]]

\* nx.adjacency_graph(data): a node per entry of nodes, with its dict; an
\* edge from the i-th node to each entry of the i-th adjacency list.
adjacency_graph(data) ==
    LET idx(m) == CHOOSE i \in 1..Len(data.nodes) : data.nodes[i].id = m
        N == {data.nodes[i].id : i \in 1..Len(data.nodes)}
        Ed == UNION {{<<data.nodes[i].id, data.adjacency[i][j].id>> :
                        j \in 1..Len(data.adjacency[i])} :
                     i \in 1..Len(data.adjacency)}
    IN [nodes |-> N \cup {e[2] : e \in Ed},
        edges |-> Ed,
        attrs |-> [m \in Ids |-> IF m \in N THEN data.nodes[idx(m)].keys ELSE {}],
        enabled |-> [m \in Ids |-> m \in N /\ data.nodes[idx(m)].enabled],
        locked |-> [m \in Ids |-> m \in N /\ data.nodes[idx(m)].locked]]

\* save(), lines 106-114: write the graph, append the enabled ids to the log.
Save ==
    /\ err = "ok"
    /\ op # "build"
    /\ Len(load_log(logs)) < MaxLog
    /\ op' = "save"
    /\ graph_json' = <<adjacency_data(nodes, edges, attrs, enabled, locked)>>
    /\ logs' = save_log(logs, Append(load_log(logs), dump_enabled))
    /\ report' = NoReport
    /\ UNCHANGED <<nodes, edges, attrs, enabled, locked, disk, config, err,
                   drifts, call, syncs, round>>

\* load(), lines 65-73: read the graph back, then sync it.  (The "path" key
\* of a node is the same in the document as in memory: nothing ever adds or
\* removes it.)
Load ==
    /\ err = "ok"
    /\ graph_json # <<>>
    /\ op' = "load"
    /\ report' = NoReport
    /\ round' = -1
    /\ UNCHANGED <<config, drifts, store, call>>
    /\ LET g == adjacency_graph(graph_json[1])
       IN \E r \in SyncOutcomes(g.nodes, g.edges, g.attrs, g.enabled,
                                 g.locked, disk) :
            /\ nodes' = r.nodes
            /\ edges' = r.edges
            /\ attrs' = r.attrs
            /\ enabled' = r.enabled
            /\ locked' = r.locked
            /\ disk' = r.disk
            /\ err' = r.err
    /\ syncs' = IF err' = "ok" THEN 1 ELSE 0

\* -------------------------------------------------------------------- build
RECURSIVE SubsetsUpTo(_, _)
\* The subsets of S with at most k elements.
SubsetsUpTo(S, k) ==
    IF k = 0 \/ S = {} THEN {{}}
    ELSE LET x == CHOOSE y \in S : TRUE
             without == SubsetsUpTo(S \ {x}, k)
             with == {T \cup {x} : T \in SubsetsUpTo(S \ {x}, k - 1)}
         IN without \cup with

\* The edges an input can hold: a discovered mod needs a discovered mod
\* (itself included) or an id that is no discovered mod.
Pairs == Mods \X Known

\* config.overrides is a dict: at most one value per id.
OverrideDicts ==
    {O \in SubsetsUpTo(Known \X BOOLEAN, MaxOverrides) :
        \A o1 \in O, o2 \in O : o1[1] = o2[1] => o1 = o2}

\* The graph as build() has it at line 62, before its first sync: every mod
\* found under the root is a node with name and path, enabled as its file
\* suffix says and unlocked; each declared dependency is an edge, and a
\* dependency that is no discovered mod is a node with an empty dict.  Each
\* mod is found in exactly one of its two forms.
InitGraph ==
    \E E \in SubsetsUpTo(Pairs, MaxDeps) :
    \E X \in SubsetsUpTo(E, MaxExtra) :
    \E O \in OverrideDicts :
    \E en \in [Mods -> BOOLEAN] :
        /\ edges = E \ X
        /\ nodes = Mods \cup {e[2] : e \in E \ X}
        /\ attrs = [m \in Ids |-> IF m \in Mods THEN {"path", "state"} ELSE {}]
        /\ enabled = [m \in Ids |-> m \in Mods /\ en[m]]
        /\ locked = [m \in Ids |-> FALSE]
        /\ disk = [m \in Ids |-> IF m \notin Mods THEN {}
                                 ELSE IF en[m] THEN {JAR} ELSE {JAR_DISABLED}]
        /\ overrides = O
        /\ extra_deps = X
        /\ op = "build"
        /\ err = "ok"
        /\ report = NoReport
        /\ drifts = 0
        /\ call = NoCall
        /\ syncs = 0
        /\ round = -1

\* build() in a working directory without log segments and without a graph
\* document.
Init ==
    /\ InitGraph
    /\ graph_json = <<>>
    /\ logs = FreshLogs

\* What a log segment written by earlier sessions can hold.
OldLogs == {<<>>, <<Sorted(Mods)>>}

\* build() in a working directory that holds the segments log_0.json up to
\* log_<k-1>.json of earlier sessions: line 38 adds the empty log_<k>.json.
InitStore ==
    /\ InitGraph
    /\ graph_json = <<>>
    /\ \E k \in 0..MaxSegs : \E lg \in [0..(k - 1) -> OldLogs] :
          logs = Touch(lg, next_log(glob_logs(lg)))

\* build() of a root of mods without dependencies and without overrides, in
\* a working directory where k earlier sessions ran build(): each of them
\* touched next_log(glob_logs()), so log_0.json .. log_<k-1>.json exist, and
\* line 38 adds log_<k>.json.
InitLogs ==
    /\ InitGraph
    /\ edges = {}
    /\ overrides = {}
    /\ graph_json = <<>>
    /\ \E k \in 0..MaxSessions : \E old \in OldLogs :
          logs = Touch([i \in 0..(k - 1) |-> old], next_log(0..(k - 1)))

\* build() on a root where the mods S are found, those of on enabled, with
\* the declared dependencies Ed and an empty configuration.
InitScenario(S, Ed, on) ==
    /\ nodes = S
    /\ edges = Ed
    /\ attrs = [m \in Ids |-> IF m \in S THEN {"path", "state"} ELSE {}]
    /\ enabled = [m \in Ids |-> m \in on]
    /\ locked = [m \in Ids |-> FALSE]
    /\ disk = [m \in Ids |-> IF m \notin S THEN {}
                             ELSE IF m \in on THEN {JAR} ELSE {JAR_DISABLED}]
    /\ overrides = {}
    /\ extra_deps = {}
    /\ op = "build"
    /\ err = "ok"
    /\ report = NoReport
    /\ drifts = 0
    /\ graph_json = <<>>
    /\ logs = FreshLogs
    /\ call = NoCall
    /\ syncs = 0
    /\ round = -1

\* The graphs of the two scenarios of the search: the chain A -> B -> C with
\* D apart, all enabled; and A -> B, C enabled with D, E disabled.
InitScenarios ==
    \/ InitScenario({ModA, ModB, ModC, ModD},
                    {<<ModA, ModB>>, <<ModB, ModC>>},
                    {ModA, ModB, ModC, ModD})
    \/ InitScenario({ModA, ModB, ModC, ModD, ModE},
                    {<<ModA, ModB>>},
                    {ModA, ModB, ModC})

\* The root with each mod's files in any of the four combinations of its two
\* forms, under a graph without dependencies.
InitToggler ==
    \E dk \in [Mods -> SUBSET {JAR, JAR_DISABLED}] :
        /\ edges = {}
        /\ nodes = Mods
        /\ attrs = [m \in Ids |-> IF m \in Mods THEN {"path", "state"} ELSE {}]
        /\ enabled = [m \in Ids |-> m \in Mods /\ JAR \in dk[m]]
        /\ locked = [m \in Ids |-> FALSE]
        /\ disk = [m \in Ids |-> IF m \in Mods THEN dk[m] ELSE {}]
        /\ overrides = {}
        /\ extra_deps = {}
        /\ op = "build"
        /\ err = "ok"
        /\ report = NoReport
        /\ drifts = 0
        /\ graph_json = <<>>
        /\ logs = FreshLogs
        /\ call = NoCall
        /\ syncs = 0
        /\ round = -1

NextToggler ==
    \E m \in Mods : \E source, target \in {JAR, JAR_DISABLED} :
        RenamePath(m, source, target)

\* The path toggler on its own: any sequence of calls on any files.
SpecToggler == InitToggler /\ [][NextToggler]_vars

\* The commands of the search: reconcile, bisect, record a verdict, reset.
Next ==
    \/ Sync
    \/ Bisect
    \/ SetDisabledGood
    \/ SetEnabledGood
    \/ Reset

\* A session of search commands in which nothing but the engine touches the
\* files.
Spec == Init /\ [][Next]_vars

\* The search commands on the graphs of the scenarios.
SpecScenarios == InitScenarios /\ [][Next]_vars

NextStore ==
    \/ Next
    \/ Save
    \/ Load

\* Sessions that save the graph and load it again.
SpecStore == InitStore /\ [][NextStore]_vars

NextLogs ==
    \/ Sync
    \/ Save
    \/ Load

\* Sessions that sync, save and load in a directory of many log segments.
SpecLogs == InitLogs /\ [][NextLogs]_vars

NextDrift ==
    \/ Next
    \/ \E m \in Ids : Enable(m)
    \/ \E m \in Ids : Disable(m)
    \/ \E m \in Ids : Toggle(m)
    \/ \E m \in Ids : Drift(m)

\* A session with the direct commands as well, in which the files may also
\* change behind the engine's back.
SpecDrift == Init /\ [][NextDrift]_vars

\* ----------------------------------------------------------- properties
Pending == pending_nodes(nodes, locked)

\* The files of every node are in the form its enabled flag says.
Agree ==
    \A m \in nodes : disk[m] = IF enabled[m] THEN {JAR} ELSE {JAR_DISABLED}

\* Closure on the edges between unlocked nodes.
ClosedPending ==
    \A e \in edges :
        ~locked[e[1]] /\ ~locked[e[2]] /\ enabled[e[1]] => enabled[e[2]]

\* Closure on every edge of the graph.
ClosedAll == \A e \in edges : enabled[e[1]] => enabled[e[2]]

\* The state was produced by a sync that completed.
Synced == syncs >= 1 /\ err = "ok"

\* C1: dependency closure among unlocked items holds after every sync that
\* completes and after every bisect that starts from a state produced by
\* sync: for every edge A -> B with A and B unlocked, A enabled implies B
\* enabled.
C1_ClosureAfterSyncAndBisect ==
    [][/\ (op' \in {"sync", "reset"} /\ err' = "ok" => ClosedPending')
       /\ (Synced /\ op' = "bisect" /\ err' = "ok" => ClosedPending')]_vars

\* A bisect cut a dependency chain of unlocked nodes: it disabled a dependent
\* and left its dependency enabled.
C1_Witness ==
    /\ op = "bisect" /\ err = "ok" /\ report[1] >= 1
    /\ Cardinality({m \in nodes : ~enabled[m]}) = report[1]
    /\ \E e \in edges :
          ~locked[e[1]] /\ ~locked[e[2]] /\ ~enabled[e[1]] /\ enabled[e[2]]

\* C2: lock freeze under sync: after a sync that completes, every override
\* that names a node of the graph has left that node locked and enabled
\* exactly as the override says; closure propagation has not changed it.
C2_LockFreezeUnderSync ==
    op = "sync" /\ err = "ok" =>
        \A o \in overrides :
            o[1] \in nodes => locked[o[1]] /\ enabled[o[1]] = o[2]

\* C3: bisect only disables: it never turns enabled from false to true,
\* never changes a locked flag, and leaves the enabled flag of every locked
\* item as it was.
C3_BisectOnlyDisables ==
    [][op' = "bisect" =>
          /\ \A m \in Ids : enabled'[m] => enabled[m]
          /\ locked' = locked
          /\ \A m \in Ids : locked[m] => enabled'[m] = enabled[m]]_vars

\* A bisect disabled something while a locked node stayed enabled.
C3_Witness ==
    /\ op = "bisect" /\ err = "ok" /\ report[1] >= 1
    /\ \E m \in nodes : locked[m] /\ enabled[m]

\* C4: bisection halving: from a state where flags and files agree, with n
\* unlocked enabled items, bisect newly disables exactly n div 2 items and
\* leaves n - (n div 2) unlocked items enabled, for every n >= 0.
C4_BisectHalves ==
    [][Agree /\ op' = "bisect" /\ err' = "ok" =>
          LET n == count_nodes(nodes, enabled, locked)[1]
          IN /\ report'[1] = n \div 2
             /\ count_nodes(nodes', enabled', locked')[1] = n - (n \div 2)]_vars

\* C5: after set_disabled_good every item that was unlocked and disabled is
\* locked and still disabled, so it has left the pending nodes and the
\* disabled count of count_nodes.
C5_DisabledGoodLocks ==
    [][op' = "set_disabled_good" =>
          \A m \in nodes :
              ~locked[m] /\ ~enabled[m] =>
                  /\ locked'[m] /\ ~enabled'[m]
                  /\ m \notin pending_nodes(nodes', locked')]_vars

\* C6: set_enabled_good, with D the unlocked items disabled before and E the
\* unlocked items enabled before: afterwards every item of D and every
\* transitive dependency of one is enabled, and every item of E that is no
\* transitive dependency of an item of D is disabled and locked.
C6_EnabledGoodPartition ==
    [][op' = "set_enabled_good" /\ err' = "ok" =>
          LET D == {m \in Pending : ~enabled[m]}
              E == {m \in Pending : enabled[m]}
              deps == UNION {Descendants(edges, m) : m \in D}
          IN /\ \A m \in D \cup deps : enabled'[m]
             /\ \A m \in E \ deps : ~enabled'[m] /\ locked'[m]]_vars

\* C7: search convergence: a verdict round (set_disabled_good or
\* set_enabled_good, then bisect) that starts with more than one unlocked
\* item ends with fewer unlocked items than it started with.
C7_RoundShrinksPending ==
    op = "bisect" /\ err = "ok" /\ round > 1 => Cardinality(Pending) < round

\* C8: full dependency closure after bisect on a synced graph: for every
\* edge A -> B with A enabled, locked or not, B is enabled.
C8_FullClosureAfterBisect ==
    [][Synced /\ op' = "bisect" /\ err' = "ok" => ClosedAll']_vars

\* C9: idempotence of sync: a sync right after a sync that completed (same
\* configuration, same files) completes and leaves nodes, edges, flags and
\* attribute keys as they were, and the files untouched.
C9_SyncIdempotent ==
    [][Synced /\ op' = "sync" =>
          /\ err' = "ok"
          /\ <<nodes, edges, attrs, enabled, locked>>' =
                <<nodes, edges, attrs, enabled, locked>>
          /\ disk' = disk]_vars

\* A second sync in a row has run on a graph where the first one had work to
\* do: an override locked a node and propagation enabled a dependency.
C9_Witness ==
    /\ syncs = 2 /\ op = "sync" /\ err = "ok"
    /\ \E m \in nodes : locked[m]
    /\ \E e \in edges : enabled[e[1]] /\ enabled[e[2]]

\* C10: when the unlocked subgraph, taken after overrides, extra_deps and
\* the removal of empty nodes, has a cycle, sync fails with the cycle error
\* and leaves the files as they were.  (A sync whose overrides name an id
\* outside the graph never gets that far: line 78 raises KeyError.)
C10_CycleFailsBeforeToggling ==
    [][/\ op' = "sync"
       /\ OverrideIds \subseteq nodes
       /\ HasCycle(pending_nodes(SyncNodes, SyncLocked),
                   pending_view(SyncNodes, SyncEdges, SyncLocked))
       => err' = "ValueError" /\ disk' = disk]_vars

\* A sync failed on a cycle although an override had already changed a flag
\* that the files do not follow.
C10_Witness ==
    /\ op = "sync" /\ err = "ValueError"
    /\ \E m \in nodes : locked[m] /\ enabled[m] /\ disk[m] = {JAR_DISABLED}

\* C11: cycles through locked items are permitted: on a graph whose unlocked
\* subgraph is acyclic but which has a cycle through a locked item, sync and
\* bisect complete without raising.  (Every node is a discovered mod with
\* its file in place, so nothing else can raise.)
C11_LockedCyclesPermitted ==
    [][/\ (/\ op' = "sync"
           /\ OverrideIds \subseteq nodes
           /\ \A m \in SyncNodes : "path" \in attrs[m]
           /\ ~HasCycle(pending_nodes(SyncNodes, SyncLocked),
                        pending_view(SyncNodes, SyncEdges, SyncLocked))
           /\ HasCycle(SyncNodes, SyncEdges)
           => err' = "ok")
       /\ (/\ op' = "bisect"
           /\ ~HasCycle(Pending, pending_view(nodes, edges, locked))
           /\ HasCycle(nodes, edges)
           => err' = "ok")]_vars

\* C12: the contract of the path toggler: rename_path(source, target)
\* renames and returns true when only source exists; returns false and
\* changes nothing when only target exists; raises the consistency error
\* when both exist and not-found when neither exists, changing nothing.  So
\* a call with the arguments of the call before, when that one did not
\* raise, returns false, changes nothing and does not raise.
C12_TogglerContract ==
    [][op' = "rename_path" =>
          LET m == call'.m
              F == disk[m]
              s == call'.source
              t == call'.target
          IN /\ \A x \in Ids \ {m} : disk'[x] = disk[x]
             /\ (s \in F /\ t \notin F =>
                    /\ call'.ret /\ call'.err = "ok"
                    /\ disk'[m] = (F \ {s}) \cup {t})
             /\ (s \notin F /\ t \in F =>
                    ~call'.ret /\ call'.err = "ok" /\ disk' = disk)
             /\ (s \in F /\ t \in F =>
                    call'.err = "RuntimeError" /\ disk' = disk)
             /\ (s \notin F /\ t \notin F =>
                    call'.err = "FileNotFoundError" /\ disk' = disk)
             /\ (call'.again \in {"true", "false"} =>
                    ~call'.ret /\ call'.err = "ok" /\ disk' = disk)]_vars

\* The call before renamed the file; the same call again found it renamed.
C12_Witness ==
    /\ op = "rename_path" /\ call.again = "true"
    /\ ~call.ret /\ call.err = "ok"
    /\ disk[call.m] = {call.target}

\* C13: when the path toggler raises inside set_enabled (both forms of the
\* mod exist, or neither), the enabled flag of the node is what it was
\* before the call, so the failed call leaves memory and files as they were.
C13_FailedToggleKeepsFlag ==
    [][/\ op' \in {"enable", "disable", "toggle"}
       /\ err' \in {"RuntimeError", "FileNotFoundError"}
       => enabled' = enabled /\ disk' = disk]_vars

\* C14: round trip: a load right after a save, with the configuration and
\* the files as they were, yields the graph that was saved: the same nodes,
\* the same edges, and for every node the same name, path, enabled and
\* locked.
C14_SaveLoadRoundTrip ==
    [][op = "save" /\ op' = "load" =>
          /\ err' = "ok"
          /\ nodes' = nodes
          /\ edges' = edges
          /\ \A m \in nodes :
                /\ attrs'[m] = attrs[m]
                /\ enabled'[m] = enabled[m]
                /\ locked'[m] = locked[m]]_vars

\* C15: the history log is append-only: every save appends exactly one
\* entry to one segment, the ids of the nodes enabled at that moment in
\* ascending order, and leaves the entries that segment already held, and
\* every other segment, as they were; no other operation of the engine
\* changes the log.
C15_LogAppendOnly ==
    [][/\ (op' = "save" =>
             /\ DOMAIN logs' = DOMAIN logs
             /\ \E i \in DOMAIN logs :
                  /\ Len(logs'[i]) = Len(logs[i]) + 1
                  /\ \A k \in 1..Len(logs[i]) : logs'[i][k] = logs[i][k]
                  /\ LET entry == logs'[i][Len(logs'[i])]
                     IN /\ {entry[k] : k \in 1..Len(entry)} =
                              {m \in nodes : enabled[m]}
                        /\ \A k \in 1..(Len(entry) - 1) : entry[k] < entry[k + 1]
                  /\ \A j \in DOMAIN logs \ {i} : logs'[j] = logs[j])
       /\ (op' # "save" => logs' = logs)]_vars

\* A second save of the session has appended to the segment log_1.json that
\* build started, behind an entry that differs from it, and log_0.json of an
\* earlier session still holds its entry.
C15_Witness ==
    /\ op = "save" /\ err = "ok"
    /\ DOMAIN logs = {0, 1}
    /\ Len(logs[0]) = 1
    /\ Len(logs[1]) = 2 /\ logs[1][1] # logs[1][2]

\* The graph of the first scenario: A -> B -> C and D apart, all enabled,
\* none locked.
Chain ==
    /\ nodes = {ModA, ModB, ModC, ModD}
    /\ edges = {<<ModA, ModB>>, <<ModB, ModC>>}
    /\ \A m \in nodes : enabled[m] /\ ~locked[m]

\* C16: scenario: with A -> B -> C and D apart, all enabled and none locked,
\* bisect (target 2) disables A and B: afterwards A and B are disabled, C
\* and D are enabled, and two unlocked items are enabled.
C16_ScenarioChain ==
    [][Chain /\ op' = "bisect" =>
          /\ err' = "ok"
          /\ ~enabled'[ModA] /\ ~enabled'[ModB]
          /\ enabled'[ModC] /\ enabled'[ModD]
          /\ count_nodes(nodes', enabled', locked')[1] = 2]_vars

\* C16 as amended: bisect disables A and one of B and D, whichever the sort
\* yields first; C stays enabled, B is disabled only behind A, and two
\* unlocked items are left enabled.
C16_ScenarioChainAmended ==
    [][Chain /\ op' = "bisect" =>
          /\ err' = "ok"
          /\ report'[1] = 2
          /\ ~enabled'[ModA]
          /\ enabled'[ModB] # enabled'[ModD]
          /\ enabled'[ModC]
          /\ ClosedAll'
          /\ count_nodes(nodes', enabled', locked')[1] = 2]_vars

\* The bisect of the scenario has disabled A and D and left B and C enabled.
C16_Witness ==
    /\ op = "bisect" /\ err = "ok" /\ report[1] = 2 /\ syncs = 0 /\ round = -1
    /\ nodes = {ModA, ModB, ModC, ModD}
    /\ edges = {<<ModA, ModB>>, <<ModB, ModC>>}
    /\ \A m \in nodes : ~locked[m] /\ "is_good" \notin attrs[m]
    /\ {m \in nodes : enabled[m]} = {ModB, ModC}

\* C17: closure propagation from a locked ancestor: when an override locks
\* and enables X and extra_deps adds the edge X -> Y to an item Y that is
\* not overridden and is disabled, then after sync Y is enabled and still
\* unlocked; and after every sync that completes, every unlocked item that
\* is a transitive dependency of an enabled item, locked or not, is enabled.
C17_ClosureFromLockedAncestor ==
    [][op' = "sync" /\ err' = "ok" =>
          /\ \A e \in extra_deps :
                /\ <<e[1], TRUE>> \in overrides
                /\ e[2] \in nodes' \ OverrideIds
                /\ ~enabled[e[2]] /\ ~locked[e[2]]
                => enabled'[e[2]] /\ ~locked'[e[2]]
          /\ \A a \in nodes' : \A m \in Descendants(edges', a) :
                enabled'[a] /\ ~locked'[m] => enabled'[m]]_vars

\* The first sync has run where an override locks and enables X and
\* extra_deps makes X need another item Y: both are enabled, Y with its file
\* in place, and Y is unlocked.
C17_Witness ==
    /\ op = "sync" /\ err = "ok" /\ syncs = 1
    /\ \E e \in extra_deps :
          /\ e[1] # e[2]
          /\ <<e[1], TRUE>> \in overrides
          /\ e \in edges
          /\ locked[e[1]] /\ enabled[e[1]]
          /\ ~locked[e[2]] /\ enabled[e[2]]
          /\ disk[e[2]] = {JAR}

\* The graph of the last scenario: A, B, C enabled with A -> B, and D, E
\* disabled, none locked.
Verdict ==
    /\ nodes = {ModA, ModB, ModC, ModD, ModE}
    /\ edges = {<<ModA, ModB>>}
    /\ \A m \in nodes : ~locked[m]
    /\ {m \in nodes : enabled[m]} = {ModA, ModB, ModC}

\* C18: scenario: on the graph with A, B, C enabled (A -> B) and D, E
\* disabled, none locked, set_enabled_good leaves D and E enabled and
\* locked, leaves C disabled and locked, and leaves A and B enabled and
\* unlocked.
C18_ScenarioVerdict ==
    [][Verdict /\ op' = "set_enabled_good" =>
          /\ err' = "ok"
          /\ \A m \in {ModD, ModE} : enabled'[m] /\ locked'[m]
          /\ ~enabled'[ModC] /\ locked'[ModC]
          /\ \A m \in {ModA, ModB} : enabled'[m] /\ ~locked'[m]]_vars

\* C19: memory and files agree: after a sync that completes, the file of
\* every node is in its enabled form exactly when the node is enabled, also
\* when the files had drifted from the flags before; and every enable,
\* disable, toggle, bisect, set_disabled_good and set_enabled_good that
\* completes keeps the agreement.
C19_FilesAgree ==
    [][/\ (op' \in {"sync", "reset"} /\ err' = "ok" => Agree')
       /\ (/\ Agree
           /\ op' \in {"enable", "disable", "toggle", "bisect",
                       "set_disabled_good", "set_enabled_good"}
           /\ err' = "ok"
           => Agree')]_vars

\* A sync has completed after the files were changed from outside, and it
\* was the sync that brought flags and files together again: no sync had
\* completed since the change.
C19_Witness ==
    /\ op = "sync" /\ err = "ok" /\ syncs = 1
    /\ drifts = MaxDrift
    /\ Agree
    /\ \E m \in nodes : enabled[m]
    /\ \E m \in nodes : ~enabled[m]

\* C20: the 'remaining' number bisect reports is the number of unlocked
\* items that are enabled when bisect has finished, whatever the state it
\* started from.
C20_ReportedRemaining ==
    op = "bisect" /\ err = "ok" =>
        report[2] = count_nodes(nodes, enabled, locked)[1]

\* C22: set_enabled_good preserves dependency closure among unlocked items:
\* after a call that completes, for every edge A -> B with A and B unlocked,
\* A enabled implies B enabled, whatever the state before the call, so the
\* bisect that follows without a sync between starts from a closed state.
C22_EnabledGoodKeepsClosure ==
    [][op' = "set_enabled_good" /\ err' = "ok" => ClosedPending']_vars

\* set_enabled_good has run on two unlocked items of which one needs the
\* other: both are enabled afterwards and the dependency carries no mark, so
\* it was not disabled as part of the good set.
C22_Witness ==
    /\ op = "set_enabled_good" /\ err = "ok" /\ round = 2
    /\ \E e \in edges :
          /\ e[1] # e[2]
          /\ ~locked[e[1]] /\ ~locked[e[2]]
          /\ enabled[e[1]] /\ enabled[e[2]]
          /\ "is_good" \notin attrs[e[2]]
          /\ disk[e[1]] = {JAR} /\ disk[e[2]] = {JAR}

\* C21: log segment selection: whatever the number of segments log_<i>.json
\* present (more than ten included), a save reads the entries of the segment
\* with the highest numeric index, writes them back to that segment with the
\* new entry appended and leaves every other segment as it was; without any
\* segment it starts segment 0.  No entry goes to a lower segment while a
\* higher one exists.
C21_HighestSegment ==
    [][op' = "save" =>
         IF DOMAIN logs = {}
         THEN logs' = [i \in {0} |-> <<dump_enabled>>]
         ELSE LET top == CHOOSE i \in DOMAIN logs : \A j \in DOMAIN logs : j <= i
              IN /\ DOMAIN logs' = DOMAIN logs
                 /\ logs'[top] = Append(logs[top], dump_enabled)
                 /\ \A j \in DOMAIN logs \ {top} : logs'[j] = logs[j]]_vars

=============================================================================
